---- MODULE Spec2Model ----
(***************************************************************************)
(* Versioned documents of decapod_common.models.generic: Model.save,       *)
(* Model.delete, the loaders and list_models over one MongoDB collection,  *)
(* with several Model instances used by concurrent callers.                *)
(*                                                                         *)
(* A call of save()/delete() takes two steps of the store: the insert      *)
(* (generic.py:283) and the update_many that demotes the other rows        *)
(* (generic.py:285-292).  Everything a call does between two store         *)
(* operations touches only the instance and belongs to the same step.      *)
(***************************************************************************)
EXTENDS Integers, Sequences, FiniteSets, TLC

\* ------------------------------------------------------------------ bounds
NumInst == 2        \* Model instances alive at a time
MaxRows == 2        \* documents the collection may hold
MaxTime == 1        \* values timeutils.current_unix_timestamp() may return
IdLen == 2          \* hexadecimal digits of a version identifier (24 in bson)

Times == 1..MaxTime

Instances == 1..NumInst

\* None of Python, for model_id and _id (both are positive when set)
None == 0

VARIABLES
    store,      \* the collection: sequence of documents, in insertion order
    indexes,    \* names of the indexes of the collection
    inst,       \* inst[i]: the fields of Model instance i
    pc,         \* pc[i]: "idle", or the call that is between insert and update_many
    raised,     \* raised[i]: what the latest save()/delete() on instance i raised
    hist,       \* hist[i]: history of instance i since it was built (ghost)
    reply,      \* what the query made in the latest step returned
    cursor      \* the find_by_model_id that has counted its cursor, if any

vars == <<store, indexes, inst, pc, raised, hist, reply, cursor>>

\* the longest mapping key of a structure handed to dict_escape
MaxKeyLen == 1

\* the most entries of a mapping and items of a sequence handed to dict_escape
MaxItems == 2

\* the most calls of dot_escape and dot_unescape made one on the result of the
\* other
MaxCalls == 3

\* the classes defined below Base and Model
NumClasses == 2

\* ------------------------------------------------------------------ store
Rows == {store[k] : k \in DOMAIN store}

RowsOf(m) == {r \in Rows : r.model_id = m}

LatestOf(m) == {r \in RowsOf(m) : r.is_latest}

ModelIds == {r.model_id : r \in Rows}

MaxOf(S) == IF S = {} THEN 0 ELSE CHOOSE x \in S : \A y \in S : y <= x

\* ------------------------------------------------------------------ helpers
\* generic.py:61-69
MODEL_DB_STRUCTURE ==
    [_id |-> None, model_id |-> None, version |-> 0,
     time_deleted |-> 0, is_latest |-> TRUE]

\* bson.objectid.ObjectId(): an identifier no document has
ObjectId == Len(store) + 1

\* uuid.uuid4(): a model_id no document has
uuid4 == MaxOf(ModelIds) + 1

\* generic.py:229-236
NewModel ==
    [model_id |-> None, time_deleted |-> 0, version |-> 0, _id |-> None]

\* generic.py:330-338
make_db_document_structure == [MODEL_DB_STRUCTURE EXCEPT !._id = ObjectId]

\* a check that lets a deleted model through
check_constraints_skipped(self) == FALSE

\* generic.py:367-369: TRUE when CannotUpdateDeletedModel is raised
check_constraints(self) == self.time_deleted # 0

\* a save() that skips a version
NextVersionSkipping(self) == self.version + 2

\* generic.py:277: the version of the document to insert
NextVersion(self) == self.version + 1

\* a save() that draws a new model_id whatever the instance holds
DocumentModelIdAlwaysNew(self, structure) ==
    IF structure.model_id = None THEN uuid4 ELSE structure.model_id

\* generic.py:278-279: the model_id of the document to insert
DocumentModelId(self, structure) ==
    IF structure.model_id = None
    THEN (IF self.model_id # None THEN self.model_id ELSE uuid4)
    ELSE structure.model_id

\* generic.py:277-280 (time_created, which no operation reads, is left out)
SaveStructure(self, structure) ==
    [structure EXCEPT !.version = NextVersion(self),
                      !.model_id = DocumentModelId(self, structure),
                      !.is_latest = TRUE]

\* an insert into a collection that checks no unique index
DuplicateKeyUnchecked(doc) == FALSE

\* generic.py:306-312 with the unique index of generic.py:386-393:
\* TRUE when the insert raises DuplicateKeyError
DuplicateKey(doc) ==
    /\ "index_unique_version" \in indexes
    /\ \E r \in Rows : r.model_id = doc.model_id /\ r.version = doc.version

\* a refresh that forgets time_deleted
update_from_db_document_undeleted(self, doc) ==
    [self EXCEPT !.version = doc.version,
                 !.model_id = doc.model_id,
                 !._id = doc._id]

\* generic.py:314-328
update_from_db_document(self, doc) ==
    [self EXCEPT !.time_deleted = doc.time_deleted,
                 !.version = doc.version,
                 !.model_id = doc.model_id,
                 !._id = doc._id]

\* a save() that refreshes the instance although the insert was rejected
AfterRejectedInsertRefreshed(self, doc) ==
    [self EXCEPT !.time_deleted = doc.time_deleted,
                 !.version = doc.version,
                 !.model_id = doc.model_id,
                 !._id = doc._id]

\* generic.py:309-312: the instance when the insert was rejected
AfterRejectedInsert(self, doc) == self

\* an update_many whose filter leaves out the _id of the new document
DemoteAll(s, mid, id) ==
    [k \in DOMAIN s |->
        IF s[k].model_id = mid /\ s[k].is_latest
        THEN [s[k] EXCEPT !.is_latest = FALSE]
        ELSE s[k]]

\* an update_many that matches no document
DemoteNone(s, mid, id) == s

\* an update_many whose filter leaves out the model_id
DemoteAnyModel(s, mid, id) ==
    [k \in DOMAIN s |->
        IF s[k]._id # id /\ s[k].is_latest
        THEN [s[k] EXCEPT !.is_latest = FALSE]
        ELSE s[k]]

\* generic.py:285-292: update_many({model_id, _id $ne, is_latest}, $set is_latest False)
DemoteOthers(s, mid, id) ==
    [k \in DOMAIN s |->
        IF s[k].model_id = mid /\ s[k]._id # id /\ s[k].is_latest
        THEN [s[k] EXCEPT !.is_latest = FALSE]
        ELSE s[k]]

\* dict.update: the keys of other replace those of query
DictUpdate(query, other) ==
    [k \in DOMAIN query \cup DOMAIN other |->
        IF k \in DOMAIN other THEN other[k] ELSE query[k]]

\* collection.find(query) for a query of field: value pairs
Find(query) == {r \in Rows : \A k \in DOMAIN query : r[k] = query[k]}

\* generic.py:194-195
ListModelsQuery(filter) ==
    DictUpdate([time_deleted |-> 0, is_latest |-> TRUE], filter)

\* the filters a caller passes: field: value pairs over some of these fields
Filters ==
    {[k \in S |-> full[k]] :
        full \in [time_deleted : {0} \cup Times, is_latest : BOOLEAN,
                  version : 1..MaxRows],
        S \in SUBSET {"time_deleted", "is_latest", "version"}}

\* the characters of the strings a caller passes as a version identifier:
\* three hexadecimal digits and one character that is none
IdChars == {"0", "1", "2", "g"}

HexDigit(c) == IF c = "0" THEN 0 ELSE IF c = "1" THEN 1 ELSE IF c = "2" THEN 2 ELSE -1

RECURSIVE HexValue(_)
HexValue(s) ==
    IF s = <<>> THEN 0
    ELSE 16 * HexValue(SubSeq(s, 1, Len(s) - 1)) + HexDigit(s[Len(s)])

\* the strings of at most n characters
RECURSIVE StringsUpTo(_)
StringsUpTo(n) ==
    IF n = 0 THEN {<<>>}
    ELSE LET shorter == StringsUpTo(n - 1) IN
         shorter \cup {Append(s, c) : s \in {t \in shorter : Len(t) = n - 1},
                                      c \in IdChars}

\* what a caller may pass to find_by_id: too short, well-formed, too long
ItemIds == StringsUpTo(IdLen + 1)

\* bson.objectid.ObjectId(item_id) of generic.py:162: TRUE when it raises
\* InvalidId, the string not being IdLen hexadecimal digits
InvalidId(item_id) ==
    \/ Len(item_id) # IdLen
    \/ \E k \in DOMAIN item_id : HexDigit(item_id[k]) < 0

\* generic.py:155-170: what find_by_id(item_id) returns or raises; the model it
\* returns is the one update_from_db_document builds from the document found
FindByIdReply(item_id) ==
    IF item_id = <<>>
    THEN [op |-> "find_by_id", arg |-> item_id, kind |-> "None", rows |-> {}]
    ELSE IF InvalidId(item_id)
    THEN [op |-> "find_by_id", arg |-> item_id, kind |-> "raise InvalidId",
          rows |-> {}]
    ELSE LET found == Find([_id |-> HexValue(item_id)]) IN
         IF found = {}
         THEN [op |-> "find_by_id", arg |-> item_id, kind |-> "None", rows |-> {}]
         ELSE [op |-> "find_by_id", arg |-> item_id, kind |-> "model",
               rows |-> found]

\* the orders in which a cursor may yield the documents S
Cursors(S) ==
    {c \in [1..Cardinality(S) -> S] : \A k, l \in DOMAIN c : k # l => c[k] # c[l]}

\* a cursor sorted by version, lowest first
VersionAscending(c) ==
    \A k, l \in DOMAIN c : k < l => c[k].version <= c[l].version

\* generic.py:209: sort_by = [("version", SORT_DESC)]
VersionDescending(c) ==
    \A k, l \in DOMAIN c : k < l => c[k].version >= c[l].version

\* generic.py:206-212 with list_raw (generic.py:172-180): the documents of the
\* cursor of list_versions(item_id), whatever the page
ListVersionsCursors(item_id) ==
    {c \in Cursors(Find([model_id |-> item_id])) : VersionDescending(c)}

\* the model ids a caller may ask for: those of the store and one it has not
QueryIds == ModelIds \cup {uuid4}

\* the argument tuples of find_by_model_id: no id, one id, two ids
ItemIdTuples ==
    {<<>>} \cup {<<m>> : m \in QueryIds} \cup (QueryIds \X QueryIds)

\* generic.py:139-140: find({"model_id": {"$in": item_id}, "is_latest": True})
FindByModelIdDocuments(item_id) ==
    {r \in Rows : /\ \E k \in DOMAIN item_id : r.model_id = item_id[k]
                  /\ r.is_latest}

\* generic.py:136-142: what find_by_model_id(*item_id) returns before it
\* reads its cursor, count being documents.count()
FindByModelIdEarly(item_id, count) ==
    IF item_id = <<>> \/ count = 0
    THEN [op |-> "find_by_model_id", arg |-> item_id, kind |-> "None",
          models |-> <<>>]
    ELSE [op |-> "none", rows |-> {}]

\* generic.py:144-153: what find_by_model_id(*item_id) returns when the cursor
\* yields documents; a model is written as the document it is built from,
\* and models[0] of an empty list raises IndexError
FindByModelIdReply(item_id, documents) ==
    IF Len(item_id) = 1
    THEN IF Len(documents) = 0
         THEN [op |-> "find_by_model_id", arg |-> item_id,
               kind |-> "raise IndexError", models |-> <<>>]
         ELSE [op |-> "find_by_model_id", arg |-> item_id, kind |-> "model",
               models |-> <<documents[1]>>]
    ELSE [op |-> "find_by_model_id", arg |-> item_id, kind |-> "list",
          models |-> documents]

\* ------------------------------------------------------------------ escaper
\* generic.py:89: DOT_ESCAPE, the heart character, written as one character
DOT_ESCAPE == "H"

\* the characters of a key: the reserved one, its stand-in and any other
KeyChars == {".", DOT_ESCAPE, "a"}

\* the strings of at most n characters of a key
RECURSIVE KeyStrings(_)
KeyStrings(n) ==
    IF n = 0 THEN {<<>>}
    ELSE LET shorter == KeyStrings(n - 1) IN
         shorter \cup {Append(s, c) : s \in {t \in shorter : Len(t) = n - 1},
                                      c \in KeyChars}

\* Python values, each one a node: a str with its characters as text, an int
\* with its digits as text, a list, tuple or set with its items in order, a
\* dict with its entries in insertion order, an entry being a key and a value
Str(text) == [type |-> "str", text |-> text, items |-> <<>>]

Num(digits) == [type |-> "int", text |-> digits, items |-> <<>>]

Container(type, items) == [type |-> type, text |-> <<>>, items |-> items]

Entry(key, value) == Container("entry", <<key, value>>)

Dict(entries) == Container("dict", entries)

\* the keys of a mapping: strings, and one key that is not a string
Keys == {Str(text) : text \in KeyStrings(MaxKeyLen)} \cup {Num(<<"7">>)}

\* the leaf values: a string holding the reserved character, a string holding
\* the stand-in, an int
Leaves == {Str(<<".">>), Str(<<DOT_ESCAPE>>), Num(<<"1">>)}

\* the sequences of exactly n members of S
RECURSIVE Tuples(_, _)
Tuples(S, n) ==
    IF n = 0 THEN {<<>>}
    ELSE {Append(t, x) : t \in Tuples(S, n - 1), x \in S}

\* the sequences of at most n members of S, no member twice
Distinct(S, n) ==
    {t \in UNION {Tuples(S, m) : m \in 0..n} :
        \A k, l \in DOMAIN t : k # l => t[k] # t[l]}

\* the mappings of several entries, their keys distinct, their values ints
\* that tell the entries apart: 1, 11, 111
FlatDicts ==
    {Dict([k \in DOMAIN keys |->
                Entry(keys[k], Num([j \in 1..k |-> "1"]))]) :
        keys \in Distinct(Keys, MaxItems)}

\* the values one level deep: leaves, mappings of one entry, lists and tuples
\* of leaves, sets of leaves
Flat ==
    Leaves
    \cup {Dict(<<Entry(key, value)>>) : key \in Keys, value \in Leaves}
    \cup {Container(type, items) :
            type \in {"list", "tuple"},
            items \in UNION {Tuples(Leaves, m) : m \in 0..MaxItems}}
    \cup {Container("set", items) : items \in Distinct(Leaves, MaxItems)}

\* the structures handed to the escaper: the above, and a mapping or a
\* sequence that holds one of the above
Structures ==
    Flat \cup FlatDicts
    \cup {Dict(<<Entry(key, value)>>) :
            key \in Keys, value \in Flat \ Leaves}
    \cup {Container(type, <<item>>) :
            type \in {"list", "tuple"}, item \in Flat \ Leaves}

\* str.replace(from_, to_) of generic.py:417, both of one character
Replace(from_, to_, text) ==
    [k \in DOMAIN text |-> IF text[k] = from_ THEN to_ ELSE text[k]]

\* generic.py:416-417: the key of the new entry; only a str is replaced in
EscapedKey(from_, to_, key) ==
    IF key.type = "str" THEN Str(Replace(from_, to_, key.text)) ELSE key

\* new_dict[key] = value of generic.py:418: a key already there keeps its
\* place and takes the value, a new key goes last
SetItem(entries, key, value) ==
    IF \E k \in DOMAIN entries : entries[k].items[1] = key
    THEN [k \in DOMAIN entries |->
            IF entries[k].items[1] = key THEN Entry(key, value) ELSE entries[k]]
    ELSE Append(entries, Entry(key, value))

\* set(...) of generic.py:422: an item equal to an earlier one is dropped
RECURSIVE SetOf(_)
SetOf(items) ==
    IF items = <<>> THEN <<>>
    ELSE LET front == SetOf(SubSeq(items, 1, Len(items) - 1))
             last == items[Len(items)] IN
         IF \E k \in DOMAIN front : front[k] = last THEN front
         ELSE Append(front, last)

\* generic.py:412-424: dict_escape(from_, to_, data)
RECURSIVE dict_escape(_, _, _)
dict_escape(from_, to_, data) ==
    LET RECURSIVE new_dict(_)
        new_dict(n) ==
            IF n = 0 THEN <<>>
            ELSE SetItem(new_dict(n - 1),
                         EscapedKey(from_, to_, data.items[n].items[1]),
                         dict_escape(from_, to_, data.items[n].items[2]))
        escaped == [k \in DOMAIN data.items |->
                        dict_escape(from_, to_, data.items[k])]
    IN  IF data.type = "dict" THEN Dict(new_dict(Len(data.items)))
        ELSE IF data.type \in {"list", "tuple"}
        THEN Container(data.type, escaped)
        ELSE IF data.type = "set" THEN Container("set", SetOf(escaped))
        ELSE data

\* generic.py:427: dot_escape
dot_escape(data) == dict_escape(".", DOT_ESCAPE, data)

\* an unescaper that puts some other character where the stand-in was
dot_unescape_astray(data) == dict_escape(DOT_ESCAPE, "a", data)

\* generic.py:428: dot_unescape
dot_unescape(data) == dict_escape(DOT_ESCAPE, ".", data)

\* the call named name made on data
Call(name, data) ==
    IF name = "dot_escape" THEN dot_escape(data) ELSE dot_unescape(data)

\* ------------------------------------------------------------------ classes
\* generic.py:96: class Base, the first class
Base == 0

\* generic.py:121: class Model(Base), the second
Model == 1

\* the classes defined after them, in the order of their definition
UserClasses == (Model + 1)..(Model + NumClasses)

Classes == {Base, Model} \cup UserClasses

\* the bases of each class: Base has none, Model has Base, a later class has
\* some of the classes defined before it
Hierarchies ==
    {[c \in Classes |->
            IF c = Base THEN {} ELSE IF c = Model THEN {Base} ELSE bases[c]] :
        bases \in {f \in [UserClasses -> SUBSET Classes] :
                    \A c \in UserClasses :
                        f[c] # {} /\ \A b \in f[c] : b < c}}

\* generic.py:98: COLLECTION_NAME as each class sees it: None in Base and in
\* Model, a name or None in a later class
CollectionNames ==
    {[c \in Classes |-> IF c \in UserClasses THEN names[c] ELSE None] :
        names \in [UserClasses -> {None, 1}]}

\* the members of a set of classes in the order of their definition
RECURSIVE InOrder(_)
InOrder(S) ==
    IF S = {} THEN <<>>
    ELSE LET last == MaxOf(S) IN Append(InOrder(S \ {last}), last)

\* root.__subclasses__() of generic.py:407: the classes root is a base of
Subclasses(bases, root) == InOrder({c \in Classes : root \in bases[c]})

\* the classes root is a direct or transitive base of
RECURSIVE Descendants(_, _)
Descendants(bases, root) ==
    LET direct == {c \in Classes : root \in bases[c]} IN
    direct \cup UNION {Descendants(bases, c) : c \in direct}

\* the ensure_index a class has: that of Model (generic.py:371-393) for Model
\* and what derives from it, that of Base (generic.py:116-118) otherwise
IsModel(bases, cls) == cls = Model \/ cls \in Descendants(bases, Model)

\* generic.py:371-393 and 116-118: the indexes cls.ensure_index() creates
Created(bases, names, cls) ==
    IF IsModel(bases, cls) /\ names[cls] # None
    THEN {"index_latest", "index_unique_version"}
    ELSE {}

\* generic.py:406-409: the frame of one call of ensure_indexes(root), the
\* subclasses its loop has yet to take
Frame(bases, root) == [root |-> root, todo |-> Subclasses(bases, root)]

\* a loop that goes on to the next subclass without the call on this one
NextFrame(stack, bases) ==
    LET top == stack[Len(stack)] IN
    Append(SubSeq(stack, 1, Len(stack) - 1),
           [top EXCEPT !.todo = Tail(@)])

\* generic.py:407-409: the frames after the loop has taken the next subclass:
\* the loop moves on and ensure_indexes(mdl) is entered
Recurse(stack, bases) ==
    LET top == stack[Len(stack)] IN
    Append(Append(SubSeq(stack, 1, Len(stack) - 1),
                  [top EXCEPT !.todo = Tail(@)]),
           Frame(bases, Head(top.todo)))

\* ------------------------------------------------------------------ ghost
\* nothing raised: no call yet, or the latest call inserted its document
NoError == [error |-> "none", inserts |-> 0]

NoReply == [op |-> "none", rows |-> {}]

NoCursor == [arg |-> <<>>, count |-> 0]

\* hist[i]: base is the version instance i was built with (0) or loaded at,
\* model_id the model_id it was loaded with or got at its first save, saves the
\* number of its save()/delete() calls that inserted a document, and sole says
\* that no other instance had a call in flight on the entity when i was loaded
\* and that none has inserted a document of the entity since.
BuiltHist == [base |-> 0, model_id |-> None, saves |-> 0, sole |-> TRUE]

LoadedHist(i, doc) ==
    [base |-> doc.version, model_id |-> doc.model_id, saves |-> 0,
     sole |-> ~ \E k \in Instances \ {i} :
                    pc[k] # "idle" /\ inst[k].model_id = doc.model_id]

\* history after instance i inserted doc
InsertHist(i, doc) ==
    [k \in Instances |->
        IF k = i
        THEN [hist[k] EXCEPT !.saves = @ + 1,
                             !.model_id = IF @ = None THEN doc.model_id ELSE @]
        ELSE IF inst[k].model_id = doc.model_id
             THEN [hist[k] EXCEPT !.sole = FALSE]
             ELSE hist[k]]

\* ------------------------------------------------------------------ Init
\* the state after start-up: configure_models and ensure_indexes have run on an
\* empty collection, every caller holds a newly built instance
Init ==
    /\ store = <<>>
    /\ indexes = {"index_latest", "index_unique_version"}
    /\ inst = [i \in Instances |-> NewModel]
    /\ pc = [i \in Instances |-> "idle"]
    /\ raised = [i \in Instances |-> NoError]
    /\ hist = [i \in Instances |-> BuiltHist]
    /\ reply = NoReply
    /\ cursor = NoCursor

\* ------------------------------------------------------------------ actions
\* generic.py:272-284: save(structure) up to and including the insert and the
\* refresh of the instance; name is the public call it belongs to
SaveInsert(i, structure, name) ==
    /\ pc[i] = "idle"
    /\ IF check_constraints(inst[i])
       THEN /\ raised' = [raised EXCEPT ![i] =
                            [error |-> "CannotUpdateDeletedModel", inserts |-> 0]]
            /\ UNCHANGED <<store, inst, pc, hist>>
       ELSE LET doc == SaveStructure(inst[i], structure) IN
            IF DuplicateKey(doc)
            THEN /\ inst' = [inst EXCEPT ![i] = AfterRejectedInsert(inst[i], doc)]
                 /\ raised' = [raised EXCEPT ![i] =
                            [error |-> "UniqueConstraintViolationError",
                             inserts |-> 1]]
                 /\ UNCHANGED <<store, pc, hist>>
            ELSE /\ Len(store) < MaxRows
                 /\ store' = Append(store, doc)
                 /\ inst' = [inst EXCEPT ![i] = update_from_db_document(inst[i], doc)]
                 /\ pc' = [pc EXCEPT ![i] = name]
                 /\ raised' = [raised EXCEPT ![i] = [error |-> "none", inserts |-> 1]]
                 /\ hist' = InsertHist(i, doc)
    /\ reply' = NoReply
    /\ UNCHANGED <<indexes, cursor>>

\* generic.py:261-284: save() with no structure given
Save(i) == SaveInsert(i, make_db_document_structure, "save")

\* a delete() that forgets the time stamp
DeleteUnstamped(i, t) == SaveInsert(i, make_db_document_structure, "delete")

\* generic.py:296-302: delete() up to the insert of save(structure); t is
\* what timeutils.current_unix_timestamp() returns (timeutils.py:24-27)
Delete(i, t) ==
    SaveInsert(i, [make_db_document_structure EXCEPT !.time_deleted = t], "delete")

\* generic.py:285-294: the update_many of save() and the return
Demote(i) ==
    /\ pc[i] # "idle"
    /\ store' = DemoteOthers(store, inst[i].model_id, inst[i]._id)
    /\ pc' = [pc EXCEPT ![i] = "idle"]
    /\ reply' = NoReply
    /\ UNCHANGED <<indexes, inst, raised, hist, cursor>>

\* generic.py:229-236: the caller drops its instance and builds a new one
New(i) ==
    /\ pc[i] = "idle"
    /\ inst' = [inst EXCEPT ![i] = NewModel]
    /\ raised' = [raised EXCEPT ![i] = NoError]
    /\ hist' = [hist EXCEPT ![i] = BuiltHist]
    /\ reply' = NoReply
    /\ UNCHANGED <<store, indexes, pc, cursor>>

\* the caller replaces its instance by the one built from document doc
Load(i, doc) ==
    /\ inst' = [inst EXCEPT ![i] = update_from_db_document(NewModel, doc)]
    /\ raised' = [raised EXCEPT ![i] = NoError]
    /\ hist' = [hist EXCEPT ![i] = LoadedHist(i, doc)]
    /\ reply' = NoReply
    /\ UNCHANGED <<store, indexes, pc, cursor>>

\* generic.py:132-153: find_by_model_id(m), one id given; models[0] is the
\* first document of the cursor, in an order the store chooses
FindByModelId(i, m) ==
    /\ pc[i] = "idle"
    /\ \E doc \in LatestOf(m) : Load(i, doc)

\* generic.py:214-227: find_version(m, v)
FindVersion(i, m, v) ==
    /\ pc[i] = "idle"
    /\ \E doc \in {r \in RowsOf(m) : r.version = v} : Load(i, doc)

\* an ensure_index that stops after its first create_index
EnsureIndexLatestOnly ==
    /\ indexes' = indexes \cup {"index_latest"}
    /\ reply' = NoReply
    /\ UNCHANGED <<store, inst, pc, raised, hist, cursor>>

\* generic.py:371-393: Model.ensure_index of the model's class; MongoDB refuses
\* to build a unique index over documents that already share a key
EnsureIndex ==
    /\ indexes' = indexes \cup {"index_latest"} \cup
            (IF \E k, l \in DOMAIN store :
                    /\ k # l
                    /\ store[k].model_id = store[l].model_id
                    /\ store[k].version = store[l].version
             THEN {}
             ELSE {"index_unique_version"})
    /\ reply' = NoReply
    /\ UNCHANGED <<store, inst, pc, raised, hist, cursor>>

\* generic.py:192-204: list_models(pagination) with pagination["filter"] = filter;
\* the reply is every document of the cursor, whatever the page
ListModels(filter) ==
    /\ reply' = [op |-> "list_models", rows |-> Find(ListModelsQuery(filter))]
    /\ UNCHANGED <<store, indexes, inst, pc, raised, hist, cursor>>

Next ==
    \/ \E i \in Instances : Save(i)
    \/ \E i \in Instances, t \in Times : Delete(i, t)
    \/ \E i \in Instances : Demote(i)
    \/ \E i \in Instances : New(i)
    \/ \E i \in Instances, m \in ModelIds : FindByModelId(i, m)
    \/ \E i \in Instances, m \in ModelIds, v \in 1..MaxRows : FindVersion(i, m, v)
    \/ EnsureIndex

Spec == Init /\ [][Next]_vars

\* the same callers, who also list the models
NextQuery ==
    \/ Next
    \/ \E filter \in Filters : ListModels(filter)

SpecQuery == Init /\ [][NextQuery]_vars

\* generic.py:155-170: find_by_id(item_id)
FindById(item_id) ==
    /\ reply' = FindByIdReply(item_id)
    /\ UNCHANGED <<store, indexes, inst, pc, raised, hist, cursor>>

\* the same callers, who also look versions up by their identifier
NextFindById ==
    \/ Next
    \/ \E item_id \in ItemIds : FindById(item_id)

SpecFindById == Init /\ [][NextFindById]_vars

\* generic.py:206-212: list_versions(item_id, pagination)
ListVersions(item_id) ==
    /\ \E c \in ListVersionsCursors(item_id) :
            reply' = [op |-> "list_versions", arg |-> item_id, models |-> c]
    /\ UNCHANGED <<store, indexes, inst, pc, raised, hist, cursor>>

\* generic.py:132-142: find_by_model_id(*item_id), any number of ids given, up
\* to documents.count(), the first read of the store
FindByModelIdsCount(item_id) ==
    /\ cursor = NoCursor
    /\ LET count == Cardinality(FindByModelIdDocuments(item_id)) IN
       IF item_id = <<>> \/ count = 0
       THEN /\ reply' = FindByModelIdEarly(item_id, count)
            /\ UNCHANGED cursor
       ELSE /\ cursor' = [arg |-> item_id, count |-> count]
            /\ UNCHANGED reply
    /\ UNCHANGED <<store, indexes, inst, pc, raised, hist>>

\* generic.py:144-153: the loop over the cursor, the second read of the store,
\* and the return
FindByModelIdsIterate ==
    /\ cursor # NoCursor
    /\ \E c \in Cursors(FindByModelIdDocuments(cursor.arg)) :
            reply' = FindByModelIdReply(cursor.arg, c)
    /\ cursor' = NoCursor
    /\ UNCHANGED <<store, indexes, inst, pc, raised, hist>>

\* the two callers that write while the queries are made
Writers == {i \in Instances : i <= 2}

\* the steps of the two callers that write
NextWrite ==
    \/ \E i \in Writers : Save(i)
    \/ \E i \in Writers, t \in Times : Delete(i, t)
    \/ \E i \in Writers : Demote(i)
    \/ \E i \in Writers : New(i)
    \/ \E i \in Writers, m \in ModelIds : FindByModelId(i, m)
    \/ \E i \in Writers, m \in ModelIds, v \in 1..MaxRows : FindVersion(i, m, v)

\* two callers that write, and a reader of the versions of an entity
NextVersions ==
    \/ NextWrite
    \/ \E item_id \in QueryIds : ListVersions(item_id)

SpecVersions == Init /\ [][NextVersions]_vars

\* two callers that write, and a reader of latest models
NextLatest ==
    \/ NextWrite
    \/ \E item_id \in ItemIdTuples : FindByModelIdsCount(item_id)
    \/ FindByModelIdsIterate

SpecLatest == Init /\ [][NextLatest]_vars

\* a structure is at hand and nothing has been called on it: the calls made,
\* and the structure followed by what each call returned
InitEscape ==
    /\ store = <<>>
    /\ indexes = {"index_latest", "index_unique_version"}
    /\ inst = [i \in Instances |-> NewModel]
    /\ pc = [i \in Instances |-> "idle"]
    /\ raised = [i \in Instances |-> NoError]
    /\ hist = [i \in Instances |-> BuiltHist]
    /\ cursor = NoCursor
    /\ \E data \in Structures :
            reply = [op |-> "dict_escape", calls |-> <<>>, data |-> <<data>>]

\* generic.py:427-428: dot_escape or dot_unescape called on the structure the
\* call before it returned
Called(name) ==
    [reply EXCEPT !.calls = Append(@, name),
                  !.data = Append(@, Call(name, @[Len(@)]))]

DotEscape ==
    /\ Len(reply.calls) < MaxCalls
    /\ reply' = Called("dot_escape")
    /\ UNCHANGED <<store, indexes, inst, pc, raised, hist, cursor>>

DotUnescape ==
    /\ Len(reply.calls) < MaxCalls
    /\ reply' = Called("dot_unescape")
    /\ UNCHANGED <<store, indexes, inst, pc, raised, hist, cursor>>

NextEscape ==
    \/ DotEscape
    \/ DotUnescape

SpecEscape == InitEscape /\ [][NextEscape]_vars

\* the classes are defined, the connection is configured and
\* ensure_indexes(root) is entered: no ensure_index called, no index created
InitIndexes ==
    /\ store = <<>>
    /\ indexes = {}
    /\ inst = [i \in Instances |-> NewModel]
    /\ pc = [i \in Instances |-> "idle"]
    /\ raised = [i \in Instances |-> NoError]
    /\ hist = [i \in Instances |-> BuiltHist]
    /\ cursor = NoCursor
    /\ \E bases \in Hierarchies, names \in CollectionNames, root \in Classes :
            reply = [op |-> "ensure_indexes",
                     bases |-> bases,
                     COLLECTION_NAME |-> names,
                     root |-> root,
                     stack |-> <<Frame(bases, root)>>,
                     calls |-> [c \in Classes |-> 0],
                     created |-> [c \in Classes |-> {}]]

\* generic.py:407-409: one turn of the loop: mdl.ensure_index(), then
\* ensure_indexes(mdl) is entered
EnsureIndexesLoop ==
    /\ reply.stack # <<>>
    /\ reply.stack[Len(reply.stack)].todo # <<>>
    /\ LET mdl == Head(reply.stack[Len(reply.stack)].todo) IN
       reply' = [reply EXCEPT
                    !.calls[mdl] = @ + 1,
                    !.created[mdl] =
                        @ \cup Created(reply.bases, reply.COLLECTION_NAME, mdl),
                    !.stack = Recurse(@, reply.bases)]
    /\ UNCHANGED <<store, indexes, inst, pc, raised, hist, cursor>>

\* generic.py:407: the loop is over and ensure_indexes returns
EnsureIndexesReturn ==
    /\ reply.stack # <<>>
    /\ reply.stack[Len(reply.stack)].todo = <<>>
    /\ reply' = [reply EXCEPT !.stack = SubSeq(@, 1, Len(@) - 1)]
    /\ UNCHANGED <<store, indexes, inst, pc, raised, hist, cursor>>

NextIndexes ==
    \/ EnsureIndexesLoop
    \/ EnsureIndexesReturn

\* ensure_indexes is a loop of one thread: a turn that can be taken is taken
SpecIndexes == InitIndexes /\ [][NextIndexes]_vars /\ WF_vars(NextIndexes)

\* the process has started: no connection is configured, the collection has
\* no index and no document
InitBoot ==
    /\ store = <<>>
    /\ indexes = {}
    /\ inst = [i \in Instances |-> NewModel]
    /\ pc = [i \in Instances |-> "idle"]
    /\ raised = [i \in Instances |-> NoError]
    /\ hist = [i \in Instances |-> BuiltHist]
    /\ cursor = NoCursor
    /\ reply = [op |-> "boot", CONNECTION |-> None]

\* generic.py:396-403: configure_models(connection) sets Base.CONNECTION
ConfigureModels ==
    /\ reply.op = "boot"
    /\ reply.CONNECTION = None
    /\ reply' = [reply EXCEPT !.CONNECTION = 1]
    /\ UNCHANGED <<store, indexes, inst, pc, raised, hist, cursor>>

\* the start-up of the process ends with ensure_indexes(), made once the
\* connection is registered
StartUp ==
    /\ reply.op = "boot"
    /\ reply.CONNECTION # None
    /\ EnsureIndex

\* the callers are let in once the start-up is over
Serve ==
    /\ reply.op # "boot"
    /\ NextWrite

NextBoot ==
    \/ ConfigureModels
    \/ StartUp
    \/ Serve

SpecBoot == InitBoot /\ [][NextBoot]_vars

\* ------------------------------------------------------------------ claims
Idle == \A i \in Instances : pc[i] = "idle"

InFlight(m) == \E i \in Instances : pc[i] # "idle" /\ inst[i].model_id = m

MaxVersion(m) == MaxOf({r.version : r \in RowsOf(m)})

\* C1: an instance built by the caller and saved N >= 1 times in sequence, with
\* no other writer of its entity, holds version N and the model_id of its first
\* save; the store holds N documents of that model_id and exactly one of them is
\* the latest, the one with version N.
C1_SequentialSaves ==
    \A i \in Instances :
        (hist[i].sole /\ hist[i].base = 0 /\ hist[i].saves >= 1 /\ pc[i] = "idle") =>
            /\ inst[i].version = hist[i].saves
            /\ inst[i].model_id = hist[i].model_id
            /\ Cardinality(RowsOf(inst[i].model_id)) = hist[i].saves
            /\ Cardinality(LatestOf(inst[i].model_id)) = 1
            /\ \A r \in LatestOf(inst[i].model_id) :
                    r.version = hist[i].saves /\ r._id = inst[i]._id

C1_Witness ==
    \E i \in Instances :
        /\ hist[i].sole /\ hist[i].base = 0 /\ hist[i].saves = 2 /\ pc[i] = "idle"
        /\ Cardinality(RowsOf(inst[i].model_id)) = 2

\* a and b are two instances loaded at the same version of the same entity
SameBase(a, b) ==
    /\ a # b
    /\ hist[a].base >= 1
    /\ hist[a].base = hist[b].base
    /\ hist[a].model_id = hist[b].model_id

\* C2 as claimed: when a's save() is in flight and b's call has made its insert,
\* both succeed and the two hold the versions V+1 and V+2.
C2_BothSucceed ==
    \A a, b \in Instances :
        (SameBase(a, b) /\ pc[a] = "save" /\ hist[a].saves = 1
            /\ pc[b] = "idle" /\ raised[b].inserts = 1) =>
            /\ raised[b].error = "none"
            /\ {inst[a].version, inst[b].version} =
                    {hist[a].base + 1, hist[a].base + 2}

\* C2 amended: of two instances loaded at the same version V, once one has
\* inserted version V+1 every insert of the other is rejected with
\* UniqueConstraintViolationError and leaves it at version V; when both are
\* done and no other writer touched the entity, exactly one document is the
\* latest: the one of version V+1, which is the highest.
C2_OneSucceeds ==
    \A a, b \in Instances :
        (SameBase(a, b) /\ hist[a].saves = 1 /\ raised[b].inserts = 1) =>
            /\ hist[b].saves = 0
            /\ raised[b].error = "UniqueConstraintViolationError"
            /\ inst[b].version = hist[b].base
            /\ inst[a].version = hist[a].base + 1
            /\ (pc[a] = "idle" /\ pc[b] = "idle" /\ hist[a].sole) =>
                    /\ Cardinality(LatestOf(hist[a].model_id)) = 1
                    /\ \A r \in LatestOf(hist[a].model_id) :
                            /\ r._id = inst[a]._id
                            /\ r.version = hist[a].base + 1
                            /\ r.version = MaxVersion(hist[a].model_id)

C2_Witness ==
    \E a, b \in Instances :
        /\ SameBase(a, b) /\ hist[a].saves = 1 /\ raised[b].inserts = 1
        /\ pc[a] = "idle" /\ pc[b] = "idle" /\ hist[a].sole
        /\ raised[b].error = "UniqueConstraintViolationError"

\* C3 as claimed: whenever no save() is in flight, every entity has exactly one
\* latest document and it is the one with the highest version.
C3_OneLatestWhenIdle ==
    Idle => \A m \in ModelIds :
                /\ Cardinality(LatestOf(m)) = 1
                /\ \A r \in LatestOf(m) : r.version = MaxVersion(m)

\* C4 as claimed: at most one latest document per model_id in every state.
C4_AtMostOneLatest ==
    \A m \in ModelIds : Cardinality(LatestOf(m)) <= 1

\* C4 amended: an entity on which no save() is between its insert and its
\* update_many has at most one latest document.
C4_AtMostOneLatestQuiet ==
    \A m \in ModelIds : ~ InFlight(m) => Cardinality(LatestOf(m)) <= 1

C4_Witness ==
    \E m \in ModelIds :
        /\ ~ InFlight(m)
        /\ Cardinality(RowsOf(m)) >= 2
        /\ Cardinality(LatestOf(m)) = 1

\* the call instance i makes in this step inserted its document
Inserts(i) == pc[i] = "idle" /\ pc'[i] # "idle"

\* instance i makes a save() or delete() in this step that raises
Raises(i) == raised'[i] # raised[i] /\ raised'[i].error # "none"

\* the store holds a document with the key the next save() of instance i uses
KeyTaken(i) ==
    \E r \in Rows :
        r.model_id = inst[i].model_id /\ r.version = inst[i].version + 1

\* C5: an insert is rejected exactly when a document with the same
\* (model_id, version) exists; the call then raises
\* UniqueConstraintViolationError after one insert attempt, and the documents,
\* their latest flags and the instance's fields stay as they were.
C5_RejectedInsert ==
    [][\A i \in Instances :
        /\ Inserts(i) => ~ KeyTaken(i)
        /\ (Raises(i) /\ raised'[i].error = "UniqueConstraintViolationError") =>
                /\ KeyTaken(i)
                /\ raised'[i].inserts = 1
                /\ store' = store
                /\ inst'[i] = inst[i]
                /\ pc' = pc]_vars

C5_Witness ==
    \E i \in Instances :
        /\ raised[i].error = "UniqueConstraintViolationError"
        /\ KeyTaken(i)
        /\ inst[i].version >= 1

\* C6: save() or delete() on an instance whose time_deleted is not 0 raises
\* CannotUpdateDeletedModel without an insert, and the documents stay as they
\* were.
C6_DeletedInstance ==
    [][\A i \in Instances :
        (inst[i].time_deleted # 0 /\ (Inserts(i) \/ Raises(i))) =>
            /\ raised'[i] = [error |-> "CannotUpdateDeletedModel", inserts |-> 0]
            /\ store' = store
            /\ inst'[i] = inst[i]
            /\ pc' = pc]_vars

\* the instance deleted its entity itself and was then saved again
C6_Witness ==
    \E i \in Instances :
        /\ raised[i].error = "CannotUpdateDeletedModel"
        /\ hist[i].saves >= 1
        /\ inst[i].time_deleted # 0

Deleted(m) == {r \in RowsOf(m) : r.time_deleted # 0}

\* C7: once a model_id has a document with time_deleted # 0, no step inserts
\* another document of that model_id.
C7_DeletionTerminal ==
    [][\A m \in ModelIds :
        Deleted(m) # {} => Cardinality(RowsOf(m))' = Cardinality(RowsOf(m))]_vars

\* a call on a deleted entity was refused, by the check or by the store
C7_Witness ==
    \E i \in Instances :
        /\ raised[i].error # "none"
        /\ Deleted(inst[i].model_id) # {}

\* C8: the versions of the documents of a model_id are 1..n, one document each.
C8_DenseVersions ==
    \A m \in ModelIds :
        /\ {r.version : r \in RowsOf(m)} = 1..Cardinality(RowsOf(m))
        /\ \A r, q \in RowsOf(m) : r.version = q.version => r._id = q._id

\* a save was rejected on an entity with several versions
C8_Witness ==
    \E i \in Instances :
        /\ raised[i].error = "UniqueConstraintViolationError"
        /\ Cardinality(RowsOf(inst[i].model_id)) >= 2

\* C9: the insert of a delete() on an instance at version N appends a document
\* with version N+1, time_deleted # 0 and is_latest, its update_many leaves no
\* other document of the model_id latest; and always at most one document of a
\* model_id has time_deleted # 0, the one with the highest version.
C9_DeleteInsert ==
    \A i \in Instances :
        (pc[i] = "idle" /\ pc'[i] = "delete") =>
            /\ Len(store') = Len(store) + 1
            /\ SubSeq(store', 1, Len(store)) = store
            /\ LET doc == store'[Len(store')] IN
                    /\ doc.version = inst[i].version + 1
                    /\ doc.time_deleted # 0
                    /\ doc.is_latest
                    /\ inst[i].model_id # None => doc.model_id = inst[i].model_id
                    /\ inst'[i]._id = doc._id

C9_DeleteDemote ==
    \A i \in Instances :
        (pc[i] = "delete" /\ pc'[i] = "idle") =>
            \A k \in DOMAIN store' :
                (store'[k].model_id = inst[i].model_id /\ store'[k]._id # inst[i]._id)
                    => ~ store'[k].is_latest

C9_OneDeleted ==
    \A m \in ModelIds :
        /\ Cardinality(Deleted(m)) <= 1
        /\ \A r \in Deleted(m) : r.version = MaxVersion(m)

C9_Delete ==
    /\ []C9_OneDeleted
    /\ [][C9_DeleteInsert /\ C9_DeleteDemote]_vars

\* a delete() at version 1 has returned
C9_Witness ==
    \E i \in Instances :
        /\ pc[i] = "idle"
        /\ hist[i].saves >= 1
        /\ inst[i].time_deleted # 0
        /\ inst[i].version = 2
        /\ \E r \in RowsOf(inst[i].model_id) : r.version = 1 /\ ~ r.is_latest

\* C10 as claimed: whatever the filter, list_models returns only documents
\* with time_deleted = 0 and is_latest.
C10_ListModelsBaseline ==
    reply.op = "list_models" =>
        \A r \in reply.rows : r.time_deleted = 0 /\ r.is_latest

\* C11 as claimed: find_by_id raises nothing, and returns None for an input
\* that is empty, is not a well-formed identifier or matches no document.
C11_FindByIdNeverRaises ==
    reply.op = "find_by_id" =>
        /\ reply.kind \in {"None", "model"}
        /\ (\/ reply.arg = <<>>
            \/ InvalidId(reply.arg)
            \/ ~ \E r \in Rows : r._id = HexValue(reply.arg)) => reply.kind = "None"

\* the documents of a reply
Models == {reply.models[k] : k \in DOMAIN reply.models}

\* C12: list_versions(model_id) yields every document of that model_id once
\* and no other, by version strictly descending, a deleted last version
\* included; after N saves by the sole writer of the entity these are N.
C12_ListVersions ==
    reply.op = "list_versions" =>
        /\ Models = RowsOf(reply.arg)
        /\ Len(reply.models) = Cardinality(RowsOf(reply.arg))
        /\ \A k, l \in DOMAIN reply.models :
                k < l => reply.models[k].version > reply.models[l].version
        /\ \A i \in Instances :
                (hist[i].sole /\ hist[i].base = 0 /\ hist[i].saves >= 1
                    /\ hist[i].model_id = reply.arg) =>
                    Len(reply.models) = hist[i].saves

\* the two versions of a deleted entity are listed, the deleted one first
C12_Witness ==
    /\ reply.op = "list_versions"
    /\ Len(reply.models) = 2
    /\ reply.models[1].time_deleted # 0
    /\ \E i \in Instances :
            hist[i].sole /\ hist[i].base = 0 /\ hist[i].saves = 2
                /\ hist[i].model_id = reply.arg

\* the latest documents of the model ids asked for, deleted or not
Asked == {r \in Rows : r.is_latest /\ \E k \in DOMAIN reply.arg : r.model_id = reply.arg[k]}

\* C13 as claimed: find_by_model_id returns None when no id is given or no
\* latest document matches; otherwise one model when one id was given and a
\* list of all the matching latest documents when several were; time_deleted
\* plays no part.  The documents are counted and then read again, and a
\* demotion between the two reads leaves the loop nothing to yield.
C13_FindByModelId ==
    reply.op = "find_by_model_id" =>
        IF Len(reply.arg) = 0 \/ Asked = {}
        THEN reply.kind = "None"
        ELSE IF Len(reply.arg) = 1
        THEN /\ reply.kind = "model"
             /\ Len(reply.models) = 1
             /\ reply.models[1] \in Asked
        ELSE /\ reply.kind = "list"
             /\ Models = Asked
             /\ Len(reply.models) = Cardinality(Asked)

\* what the calls made so far begin with
Began(calls) ==
    /\ Len(reply.calls) >= Len(calls)
    /\ SubSeq(reply.calls, 1, Len(calls)) = calls

\* C14: dot_escape(dot_unescape(dot_escape(X))) == dot_escape(X), whatever
\* the keys of X hold, two keys that escape to one included.
C14_EscapeRoundTrip ==
    Began(<<"dot_escape", "dot_unescape", "dot_escape">>) =>
        reply.data[4] = reply.data[2]

\* the three calls made on a mapping whose two keys escape to one
C14_Witness ==
    /\ Began(<<"dot_escape", "dot_unescape", "dot_escape">>)
    /\ reply.data[1].type = "dict"
    /\ Len(reply.data[1].items) = 2
    /\ Len(reply.data[2].items) = 1
    /\ reply.data[3] # reply.data[1]

\* data and result differ in nothing but what is replaced in str keys
RECURSIVE SameButKeys(_, _)
SameButKeys(data, result) ==
    /\ result.type = data.type
    /\ Len(result.items) = Len(data.items)
    /\ IF data.type = "entry"
       THEN /\ result.items[1].type = data.items[1].type
            /\ data.items[1].type # "str" => result.items[1] = data.items[1]
            /\ SameButKeys(data.items[2], result.items[2])
       ELSE IF data.type \in {"dict", "list", "tuple", "set"}
       THEN \A k \in DOMAIN data.items :
                SameButKeys(data.items[k], result.items[k])
       ELSE result = data

\* C15 as claimed: either call changes only str keys: other keys and leaves
\* stay, a list, tuple or set keeps its type and number of items, a mapping
\* its number of entries, and the nesting its shape.
C15_OnlyKeysChange ==
    reply.op = "dict_escape" =>
        \A k \in DOMAIN reply.calls :
            SameButKeys(reply.data[k], reply.data[k + 1])

\* C17 as claimed: dot_unescape(dot_escape(X)) == X for every structure X.
C17_Reversible ==
    Began(<<"dot_escape", "dot_unescape">>) => reply.data[3] = reply.data[1]

\* the save() or delete() of instance i changes document k in this step: it
\* is past its insert, of the model_id of the document, and the document is
\* not the one it inserted
DemotedBy(i, k) ==
    /\ pc[i] # "idle"
    /\ pc'[i] = "idle"
    /\ inst[i].model_id = store[k].model_id
    /\ inst[i]._id # store[k]._id

\* C16: no step removes a document or changes a field of one other than
\* is_latest; is_latest only goes from TRUE to FALSE, and only by the
\* update_many of a save() or delete() of the same model_id whose own new
\* document is another; documents of other model_ids stay as they are.
C16_AppendOnly ==
    [][/\ Len(store') \in {Len(store), Len(store) + 1}
       /\ \A k \in DOMAIN store :
            /\ [store'[k] EXCEPT !.is_latest = store[k].is_latest] = store[k]
            /\ store'[k].is_latest => store[k].is_latest
            /\ store'[k] # store[k] => \E i \in Instances : DemotedBy(i, k)]_vars

\* a demoted document beside the later, latest one of its model_id
C16_Witness ==
    \E r, q \in Rows :
        /\ r.model_id = q.model_id
        /\ ~r.is_latest
        /\ q.is_latest
        /\ q.version > r.version

\* ensure_indexes(root) has returned
Returned == reply.op = "ensure_indexes" /\ reply.stack = <<>>

\* C18: ensure_indexes(root) returns, and by then ensure_index has been
\* called on every direct or transitive subclass of root; a call on a class
\* with Model's ensure_index creates both indexes when the class has a
\* collection name, and no call creates an index for a class without one.
C18_EnsureIndexes ==
    /\ <>Returned
    /\ [](Returned =>
            \A c \in Descendants(reply.bases, reply.root) :
                /\ reply.calls[c] >= 1
                /\ (IsModel(reply.bases, c) /\ reply.COLLECTION_NAME[c] # None)
                    => reply.created[c] =
                            {"index_latest", "index_unique_version"})
    /\ [](reply.op = "ensure_indexes" =>
            \A c \in Classes :
                reply.COLLECTION_NAME[c] = None => reply.created[c] = {})

\* ensure_indexes(Base) has returned; a class reached only through another
\* has both indexes, a class without a collection name has none, and a class
\* with two bases was called twice
C18_Witness ==
    /\ Returned
    /\ reply.root = Base
    /\ \E c, d, e \in UserClasses :
        /\ Base \notin reply.bases[c]
        /\ reply.created[c] = {"index_latest", "index_unique_version"}
        /\ IsModel(reply.bases, d)
        /\ reply.COLLECTION_NAME[d] = None
        /\ reply.created[d] = {}
        /\ reply.calls[e] >= 2

====
